---- MODULE Spec2Model ----
(***************************************************************************)
(* Model of the LenkCare Homes synthetic data generator                    *)
(* (src/src/datagen/generate.py, generators.py, config.py).                *)
(*                                                                         *)
(* Time is an integer number of minutes counted from midnight of the       *)
(* calendar day of START_DATE.  A Python datetime is that integer, a       *)
(* date-only ISO string read back by datetime.fromisoformat is the         *)
(* midnight of its day (DateOf).  Python None is the value None (-1).      *)
(*                                                                         *)
(* One behaviour follows generate_synthetic_data for one home of the       *)
(* `for home in homes` loops; the clients list starts with a resident of   *)
(* an earlier home, as it does whenever a later home is processed.         *)
(*                                                                         *)
(* Spec and SpecEvents follow the phases of generate_synthetic_data;       *)
(* SpecGenerator follows one IncidentGenerator object from construction;   *)
(* SpecNumber applies _generate_incident_number to inputs of any size;     *)
(* SpecTwoRuns follows two runs started with the same seed.  A Python str  *)
(* that is computed character by character is the sequence of its          *)
(* characters.                                                             *)
(***************************************************************************)
EXTENDS Integers, Sequences, FiniteSets, TLC

VARIABLES
    END_DATE,         \* config.END_DATE = datetime.now() at import
    home_index,       \* 1-based position of the home in `homes`
    home_open,        \* datetime.fromisoformat(home["createdAt"])
    capacity,         \* home["capacity"] = len(home_beds)
    initial_left,     \* iterations left of `for _ in range(initial_clients)`
    bed_occupancy,    \* bed id -> list of (start, end, client_id)
    clients,          \* the `clients` list (all_data["clients"])
    current_date,     \* the `current_date` loop variable of every phase
    client_index,     \* position of `for client in clients` (0: not started)
    record,           \* the record appended last to a collection of all_data
    pc,               \* position in generate_synthetic_data
    incident_counter_by_home,  \* IncidentGenerator.incident_counter_by_home
    home_sequence_map,         \* IncidentGenerator.home_sequence_map
    call,             \* arguments of the generate call that returned `record`
    twin,             \* what a second run appends where this one has `record`
    caregivers,       \* caregivers_by_home[home_id] with the home's assignments
    incidents         \* incidentNumber of all_data["incidents"], in order

vars == <<END_DATE, home_index, home_open, capacity, initial_left,
          bed_occupancy, clients, current_date, client_index, record, pc,
          incident_counter_by_home, home_sequence_map, call, twin,
          caregivers, incidents>>

\* what the client phase leaves alone
home_vars == <<END_DATE, home_index, home_open, capacity>>

\* the IncidentGenerator object generators["incident"] and the arguments of
\* the last call of its generate method
generator_vars == <<incident_counter_by_home, home_sequence_map, call>>

----------------------------------------------------------------------------
(* Bounds of the model *)

\* most residents one home admits in a behaviour
MaxClients == 4

\* most residents of the home in a behaviour of SpecFullHome
MaxFullClients == 5

\* most incidents of one home in a behaviour of SpecIncidents
MaxRunIncidents == 2

\* most hazard discharges taken in one lifecycle step
MaxHazardPerStep == 1
\* most residents the home admits in a behaviour that goes on to the events
MaxEventClients == 2
\* most minutes between the import of config and a later datetime.now()
MaxRunMinutes == 1
\* most incidents of the home in a behaviour of the events
MaxEventIncidents == 1
\* most calls of IncidentGenerator.generate for one home
MaxIncidents == 3

----------------------------------------------------------------------------
(* Program constants *)

None == -1
MinutesPerDay == 1440
HorizonDays == 730
InitialOffsetMax == 30
GradualStartDays == 45
StayMin == 60
StayMax == 700
HazardMinStayDays == 180
StepMax == 21
ActivityStartDays == 7
ActivityOffsetMax == 6

Days(n) == n * MinutesPerDay

\* START_DATE = END_DATE - timedelta(days=730)
START_DATE == END_DATE - Days(HorizonDays)

\* d.date() written as ISO text and read back by datetime.fromisoformat
DateOf(t) == (t \div MinutesPerDay) * MinutesPerDay

\* (a - b).days for a >= b
DaysBetween(a, b) == (a - b) \div MinutesPerDay

\* len(home_open_dates)
NumHomes == 6

\* home_open_dates[i - 1] = START_DATE + timedelta(days=...)
HomeOpenOffsets(i) ==
    CASE i = 1 -> {14}
      [] i = 2 -> 90..120
      [] i = 3 -> 180..240
      [] i = 4 -> 300..360
      [] i = 5 -> 420..480
      [] i = 6 -> 540..600

\* random.choice([4, 5, 6])
Capacities == {4, 5, 6}

----------------------------------------------------------------------------
(* Values drawn for the random inputs *)

\* minute of the day at which the run started
EarlyTod == 3 * 60 + 7
TodChoices == {EarlyTod, 23 * 60 + 30}
\* homes followed by a behaviour, and the open offsets tried for each
HomeChoices == {5, 6}
OpenOffsetChoices(i) ==
    LET r == HomeOpenOffsets(i)
    IN  {CHOOSE x \in r : \A y \in r : y <= x}
\* random.randint(0, 30)
InitialOffsetChoices == {0, InitialOffsetMax}
\* random.randint(60, 700)
StayChoices == {StayMin, StayMax}

\* stay_duration in the runs that go on to Phases 4-7: also a stay that is not
\* a whole number of weeks past the weekly activity grid
EventStayChoices == {StayMin, StayMin + 1, StayMax}
\* random.randint(7, 21)
StepChoices == {StepMax}
\* random.randint(6, 22) and random.randint(0, 59)
WorkingHourChoices == {<<6, 0>>, <<22, 59>>}
\* random.randint(0, 6)
ActivityOffsetChoices == {0, ActivityOffsetMax}
\* random.randint(2, 6)
GroupSizeChoices == {2, 6}
\* random.randint(14, 45)
IncidentStartChoices == {14, 45}

\* a step of the incident loop that does not move the date
IncidentStepNone == {0}

\* random.randint(10, 30)
IncidentStepChoices == {30}

\* random.randint(1, 24) hours
UpdateOffsetChoices == {1, 24}
\* random.randint(1, 7) days
CloseDayChoices == {1, 7}
\* random.randint(7, 30)
FirstAppointmentChoices == {7, 30}
\* random.randint(14, 42)
AppointmentStepChoices == {14, 42}
\* random.randint(8, 17) and random.choice([0, 15, 30, 45])
AppointmentTimeChoices == {<<8, 0>>, <<17, 45>>}
\* random.randint(3, 21)
CreatedDayChoices == {3, 21}
\* random.randint(1, 30)
DaysAheadChoices == {1, 30}
\* the status tried for the past appointments of the event streams: the
\* one of the greatest weight
EventStatusChoices == {"Completed"}
\* durations of _get_duration_for_type tried: the one most types share
DurationChoices == {30}
\* positions in a pool of OUTCOME_TEMPLATES tried by random.choice
OutcomeNoteChoices == {1}

----------------------------------------------------------------------------
(* Phase 2: caregivers *)

Max(a, b) == IF a >= b THEN a ELSE b

\* random.randint(2, 3)
NumCaregiversMin == 2
NumCaregiversMax == 3

\* hire_offset = random.randint(-14, 14): the two ends
HireOffsetMax == 14
HireOffsetChoices == {-HireOffsetMax, HireOffsetMax}

\* the ids of the caregivers of the home, in hiring order
CaregiverIds == <<"caregiver", "caregiver2", "caregiver3">>

\* UserGenerator.generate_caregiver for one home: the caregiver with the
\* assignment to the home
generate_caregiver(id, created_at, home_id) ==
    [id |-> id, createdAt |-> created_at,
     homeId |-> home_id, assignedAt |-> created_at]

\* hire_date = max(home_open + timedelta(days=hire_offset), START_DATE)
HireDate(hire_offset) == Max(home_open + Days(hire_offset), START_DATE)

\* a caregiver of the first home, hired when the company started
EarlierCaregiver == generate_caregiver("earlier", START_DATE, 1)

\* caregivers_by_home[home_id] after Phase 2 when two caregivers were hired,
\* both two weeks before the home opened
HiredBefore ==
    <<generate_caregiver(CaregiverIds[1], HireDate(-HireOffsetMax), home_index),
      generate_caregiver(CaregiverIds[2], HireDate(-HireOffsetMax), home_index)>>

\* positions random.choice(home_caregivers) takes
CaregiverPickChoices == {1}

\* the ids random.choice(home_caregivers) returns
home_caregivers == {caregivers[k].id : k \in CaregiverPickChoices}

----------------------------------------------------------------------------
(* Phase 3: residents *)

Beds == 1..capacity

\* (end or END_DATE)
EndOr(end) == IF end = None THEN END_DATE ELSE end

\* IsAvailable with the start of an interval left out of the stay
IsAvailableStrict(occupancy, date) ==
    \A i \in 1..Len(occupancy) :
        ~(occupancy[i][1] < date /\ date <= EndOr(occupancy[i][2]))

\* body of the loop over one bed's occupancy list in find_available_bed
IsAvailable(occupancy, date) ==
    \A i \in 1..Len(occupancy) :
        ~(occupancy[i][1] <= date /\ date <= EndOr(occupancy[i][2]))

RECURSIVE FindFrom(_, _)
FindFrom(b, date) ==
    IF b > capacity THEN None
    ELSE IF IsAvailable(bed_occupancy[b], date) THEN b
    ELSE FindFrom(b + 1, date)

\* find_available_bed that returns the first bed without reading its list
find_first_bed(date) == 1

find_available_bed(date) == FindFrom(1, date)

\* occupied_beds = sum(1 for occ in bed_occupancy.values() if any(...))
occupied_beds ==
    Cardinality({b \in Beds :
        \E i \in 1..Len(bed_occupancy[b]) :
            /\ bed_occupancy[b][i][1] <= current_date
            /\ current_date <= EndOr(bed_occupancy[b][i][2])})

\* ClientGenerator.generate; the id stands for str(uuid.uuid4())
ClientGenerate(id, home_id, bed_id, admission_date, caregiver_id, discharged, discharge_date) ==
    LET client == [id |-> id,
                   homeId |-> home_id,
                   createdById |-> caregiver_id,
                   bedId |-> bed_id,
                   admissionDate |-> DateOf(admission_date),
                   createdAt |-> admission_date,
                   dischargeDate |-> None,
                   dischargeReason |-> "",
                   isActive |-> ~discharged]
    IN  IF discharged /\ discharge_date # None
        THEN [client EXCEPT !.dischargeDate = DateOf(discharge_date),
                            !.dischargeReason = "DISCHARGE_REASONS",
                            !.isActive = FALSE]
        ELSE client

\* residents of the home being processed (clients_by_home[home_id])
clients_by_home(h) == SelectSeq(clients, LAMBDA c : c.homeId = h)

\* no record appended yet in the current phase
NoRecord == [kind |-> "none"]

\* IncidentGenerator.generate has not been called
NoCall == [made |-> FALSE]

\* a resident of the first home, admitted at a late step of its gradual fill
\* (the 31st step when every step is the longest) and not discharged: the
\* stay drawn ends after END_DATE
EarlierClient ==
    LET admitted == START_DATE + Days(14 + GradualStartDays + 30 * StepMax)
    IN  ClientGenerate(1, 1, 2, admitted, EarlierCaregiver.id, FALSE, None)

\* the residents admitted by Phase 3 before it reaches the home
EarlierClients == IF home_index > 1 THEN <<EarlierClient>> ELSE <<>>

\* a home of a run started at one of the minutes `tods` of the day, with the
\* collections of the later phases empty
HomeAt(tods, homes) ==
    /\ END_DATE \in {Days(HorizonDays) + m : m \in tods}
    /\ home_index \in homes
    /\ home_open \in {START_DATE + Days(k) : k \in OpenOffsetChoices(home_index)}
    /\ capacity \in Capacities
    /\ bed_occupancy = [b \in 1..capacity |-> <<>>]
    /\ client_index = 0
    /\ record = NoRecord
    /\ incident_counter_by_home = <<>>
    /\ home_sequence_map = <<>>
    /\ call = NoCall
    /\ twin = NoRecord
    /\ incidents = <<>>

\* the state when Phase 3 reaches the home
InitAt(tods, homes) ==
    /\ HomeAt(tods, homes)
    /\ initial_left \in 1..2
    /\ current_date = None
    /\ clients = EarlierClients
    /\ caregivers = HiredBefore
    /\ pc = "initial"

Init == InitAt({EarlyTod}, HomeChoices)

\* one iteration of `for _ in range(initial_clients)`; the last one falls
\* through to `current_date = home_open + timedelta(days=45)`
InitialAdmission ==
    /\ pc = "initial"
    /\ initial_left > 0
    /\ \E off \in InitialOffsetChoices :
         LET admit_date == home_open + Days(off)
             bed_id == find_available_bed(admit_date)
             id == Len(clients) + 1
         IN  IF bed_id # None
             THEN /\ \E caregiver \in home_caregivers :
                       clients' = Append(clients,
                           ClientGenerate(id, home_index, bed_id, admit_date,
                                          caregiver, FALSE, None))
                  /\ bed_occupancy' = [bed_occupancy EXCEPT ![bed_id] =
                       Append(@, <<admit_date, None, id>>)]
             ELSE UNCHANGED <<clients, bed_occupancy>>
    /\ initial_left' = initial_left - 1
    /\ IF initial_left' = 0
       THEN /\ pc' = "loop"
            /\ current_date' = home_open + Days(GradualStartDays)
       ELSE UNCHANGED <<pc, current_date>>
    /\ UNCHANGED <<home_vars, twin, caregivers, incidents,
                   generator_vars, client_index, record>>

\* GradualAdmissionOf without the occupancy test: a step that finds no bed
\* admits into the first bed
GradualAdmissionForced(stays) ==
    /\ pc = "loop"
    /\ current_date < END_DATE
    /\ \E admit \in BOOLEAN, stay_duration \in stays, draw \in BOOLEAN :
         LET found == find_available_bed(current_date)
             bed_id == IF found # None THEN found ELSE 1
             discharge_date == current_date + Days(stay_duration)
             is_discharged == discharge_date < END_DATE /\ draw
             end_date == IF is_discharged THEN discharge_date ELSE None
             id == Len(clients) + 1
         IN  /\ (occupied_beds < capacity /\ admit /\ found # None)
                    => Len(clients_by_home(home_index)) < MaxClients
             /\ IF admit
                THEN /\ \E caregiver \in home_caregivers :
                          clients' = Append(clients,
                              ClientGenerate(id, home_index, bed_id, current_date,
                                             caregiver, is_discharged, end_date))
                     /\ bed_occupancy' = [bed_occupancy EXCEPT ![bed_id] =
                          Append(@, <<current_date, end_date, id>>)]
                ELSE UNCHANGED <<clients, bed_occupancy>>
    /\ pc' = "hazard"
    /\ UNCHANGED <<home_vars, twin, caregivers, incidents,
                   generator_vars, initial_left,
                   current_date, client_index, record>>

\* first half of one iteration of `while current_date < END_DATE`:
\* the admission attempt, in a behaviour of at most `most` residents
GradualAdmissionWithin(stays, most) ==
    /\ pc = "loop"
    /\ current_date < END_DATE
    /\ \E admit \in BOOLEAN, stay_duration \in stays, draw \in BOOLEAN :
         LET bed_id == find_available_bed(current_date)
             discharge_date == current_date + Days(stay_duration)
             is_discharged == discharge_date < END_DATE /\ draw
             end_date == IF is_discharged THEN discharge_date ELSE None
             id == Len(clients) + 1
         IN  /\ (occupied_beds < capacity /\ admit /\ bed_id # None)
                    => Len(clients_by_home(home_index)) < most
             /\ IF occupied_beds < capacity /\ admit /\ bed_id # None
                THEN /\ \E caregiver \in home_caregivers :
                          clients' = Append(clients,
                              ClientGenerate(id, home_index, bed_id, current_date,
                                             caregiver, is_discharged, end_date))
                     /\ bed_occupancy' = [bed_occupancy EXCEPT ![bed_id] =
                          Append(@, <<current_date, end_date, id>>)]
                ELSE UNCHANGED <<clients, bed_occupancy>>
    /\ pc' = "hazard"
    /\ UNCHANGED <<home_vars, twin, caregivers, incidents,
                   generator_vars, initial_left,
                   current_date, client_index, record>>

GradualAdmissionOf(stays) == GradualAdmissionWithin(stays, MaxClients)

GradualAdmission == GradualAdmissionOf(StayChoices)

\* HazardEligible without the test `end is None`
HazardEligibleAnyEnd ==
    {<<b, i>> \in Beds \X (1..MaxClients) :
        /\ i <= Len(bed_occupancy[b])
        /\ DaysBetween(current_date, bed_occupancy[b][i][1]) > HazardMinStayDays}

\* intervals the hazard loop tests `random.random() > 0.98` for
HazardEligible ==
    {<<b, i>> \in Beds \X (1..MaxClients) :
        /\ i <= Len(bed_occupancy[b])
        /\ bed_occupancy[b][i][2] = None
        /\ DaysBetween(current_date, bed_occupancy[b][i][1]) > HazardMinStayDays}

\* DischargeClient that forgets the active flag
DischargeClientStillActive(c) ==
    [c EXCEPT !.dischargeDate = DateOf(current_date),
              !.dischargeReason = "hazard"]

\* the client update of the hazard discharge
DischargeClient(c) ==
    [c EXCEPT !.dischargeDate = DateOf(current_date),
              !.dischargeReason = "hazard",
              !.isActive = FALSE]

\* CloseInterval with the time of day of the step dropped
CloseIntervalMidnight(interval) ==
    <<interval[1], DateOf(current_date), interval[3]>>

\* occupancy[i] = (start, current_date, client_id)
CloseInterval(interval) ==
    <<interval[1], current_date, interval[3]>>

\* second half of the iteration: hazard discharges, then the date advances
HazardDischarge ==
    /\ pc = "hazard"
    /\ \E S \in SUBSET HazardEligible :
         /\ Cardinality(S) <= MaxHazardPerStep
         /\ bed_occupancy' = [b \in Beds |->
              [i \in 1..Len(bed_occupancy[b]) |->
                 IF <<b, i>> \in S
                 THEN CloseInterval(bed_occupancy[b][i])
                 ELSE bed_occupancy[b][i]]]
         /\ clients' = [k \in 1..Len(clients) |->
              IF \E p \in S : bed_occupancy[p[1]][p[2]][3] = clients[k].id
              THEN DischargeClient(clients[k])
              ELSE clients[k]]
    /\ \E step \in StepChoices : current_date' = current_date + Days(step)
    /\ pc' = "loop"
    /\ UNCHANGED <<home_vars, twin, caregivers, incidents,
                   generator_vars, initial_left,
                   client_index, record>>

\* `while current_date < END_DATE` is false: all_data["clients"] = clients
LifecycleDone ==
    /\ pc = "loop"
    /\ current_date >= END_DATE
    /\ pc' = "logs"
    /\ UNCHANGED <<home_vars, twin, caregivers, incidents,
                   generator_vars, initial_left,
                   bed_occupancy, clients, current_date, client_index,
                   record>>

Next ==
    \/ InitialAdmission
    \/ GradualAdmission
    \/ HazardDischarge
    \/ LifecycleDone

Spec == Init /\ [][Next]_vars

\* the lifecycle of the last home with four beds, followed until the home
\* holds MaxFullClients residents
InitFullHome == InitAt({EarlyTod}, {6}) /\ capacity = 4

NextFullHome ==
    \/ InitialAdmission
    \/ GradualAdmissionWithin(StayChoices, MaxFullClients)
    \/ HazardDischarge
    \/ LifecycleDone

SpecFullHome == InitFullHome /\ [][NextFullHome]_vars

\* one iteration of `for i in range(num_caregivers)` of Phase 2 for the home
HireCaregiver ==
    /\ pc = "caregivers"
    /\ Len(caregivers) < NumCaregiversMax
    /\ \E hire_offset \in HireOffsetChoices :
         caregivers' = Append(caregivers,
             generate_caregiver(CaregiverIds[Len(caregivers) + 1],
                                HireDate(hire_offset), home_index))
    /\ UNCHANGED <<home_vars, twin, generator_vars, incidents, initial_left,
                   bed_occupancy, clients, current_date, client_index,
                   record, pc>>

\* the home's iteration of `for home in homes[3:]`, once its num_caregivers
\* caregivers are hired: a caregiver of an earlier home may be assigned, with
\* assignedAt = home["createdAt"]; Phase 3 then reaches the home
MultiHomeAssignment ==
    /\ pc = "caregivers"
    /\ Len(caregivers) \in NumCaregiversMin..NumCaregiversMax
    /\ \E assign \in BOOLEAN :
         caregivers' =
             IF home_index > 3 /\ assign
             THEN Append(caregivers,
                      [EarlierCaregiver EXCEPT !.homeId = home_index,
                                               !.assignedAt = home_open])
             ELSE caregivers
    /\ clients' = EarlierClients
    /\ pc' = "initial"
    /\ UNCHANGED <<home_vars, twin, generator_vars, incidents, initial_left,
                   bed_occupancy, current_date, client_index, record>>

\* Phase 2 for the home, then the initial admissions of Phase 3
InitCaregivers ==
    /\ HomeAt({EarlyTod}, HomeChoices)
    /\ initial_left \in 1..2
    /\ current_date = None
    /\ clients = <<>>
    /\ caregivers = <<>>
    /\ pc = "caregivers"

NextCaregivers ==
    \/ HireCaregiver
    \/ MultiHomeAssignment
    \/ InitialAdmission

SpecCaregivers == InitCaregivers /\ [][NextCaregivers]_vars

----------------------------------------------------------------------------
(* Phases 4 to 7: the event streams *)

\* t.replace(hour=hour, minute=minute, second=0, microsecond=0)
AtTime(t, hour, minute) == DateOf(t) + hour * 60 + minute

\* random_working_hour_time that lands on the day after base_date
working_hour_next_day(base_date, hour, minute) ==
    AtTime(base_date + Days(1), hour, minute)

\* config.random_working_hour_time with its two draws
random_working_hour_time(base_date, hour, minute) == AtTime(base_date, hour, minute)

\* admission = datetime.fromisoformat(client["admissionDate"])
Admission(c) == c.admissionDate

\* Discharge that ignores the discharge date
DischargeIgnored(c) == END_DATE

\* discharge = datetime.fromisoformat(client["dischargeDate"])
\*             if client.get("dischargeDate") else END_DATE
Discharge(c) == IF c.dischargeDate # None THEN c.dischargeDate ELSE END_DATE

\* the record of the ADL, vitals, medication, ROM and behavior generators
LogGenerate(kind, client_id, caregiver_home, timestamp) ==
    [kind |-> kind, clientId |-> client_id, homeId |-> caregiver_home,
     timestamp |-> timestamp, createdAt |-> timestamp]

LogKinds == {"adl", "vitals", "medication", "rom", "behavior"}

\* `for client in clients` of Phase 4: the next client, or on to Phase 5
CareLogsNextClient ==
    /\ pc = "logs"
    /\ IF client_index = 0 THEN TRUE
       ELSE ~(current_date < Discharge(clients[client_index]))
    /\ IF client_index < Len(clients)
       THEN /\ client_index' = client_index + 1
            /\ current_date' = Admission(clients[client_index + 1])
            /\ pc' = "logs"
       ELSE /\ client_index' = 0
            /\ current_date' = home_open + Days(ActivityStartDays)
            /\ pc' = "activities"
    /\ record' = NoRecord
    /\ UNCHANGED <<home_vars, twin, caregivers, incidents,
                   generator_vars, initial_left,
                   bed_occupancy, clients>>

\* one iteration of `while current_date < discharge` of Phase 4
CareLogDay ==
    /\ pc = "logs"
    /\ client_index > 0
    /\ current_date < Discharge(clients[client_index])
    /\ \/ record' = NoRecord
       \/ \E kind \in LogKinds, hm \in WorkingHourChoices :
            record' = LogGenerate(kind, clients[client_index].id,
                        clients[client_index].homeId,
                        random_working_hour_time(current_date, hm[1], hm[2]))
    /\ current_date' = current_date + Days(1)
    /\ UNCHANGED <<home_vars, twin, caregivers, incidents,
                   generator_vars, initial_left,
                   bed_occupancy, clients, client_index, pc>>

\* active_client_ids of Phase 5
ActivityActiveClientIds ==
    {clients[k].id : k \in {j \in 1..Len(clients) :
        /\ clients[j].homeId = home_index
        /\ Admission(clients[j]) <= current_date
        /\ (clients[j].dischargeDate = None \/ clients[j].dischargeDate > current_date)}}

\* ActivityGenerator.generate: the participants it may draw
ActivityParticipants(client_ids, group, n) ==
    LET size == IF group
                THEN (IF Cardinality(client_ids) < n THEN Cardinality(client_ids) ELSE n)
                ELSE 1
    IN  {P \in SUBSET client_ids : Cardinality(P) = size}

\* ActivityGenerator.generate: the activity and its participant records
ActivityGenerate(home_id, activity_date, participants) ==
    [kind |-> "activity", homeId |-> home_id, date |-> DateOf(activity_date),
     createdAt |-> activity_date, participants |-> participants]

\* one iteration of the weekly loop of Phase 5
ActivityWeek ==
    /\ pc = "activities"
    /\ current_date < END_DATE
    /\ LET ids == ActivityActiveClientIds
       IN  \/ /\ ids = {} \/ ~(current_date + Days(ActivityOffsetMax) < END_DATE)
              /\ record' = NoRecord
           \/ /\ ids # {}
              /\ \E off \in ActivityOffsetChoices, group \in BOOLEAN,
                    n \in GroupSizeChoices :
                   LET activity_date == current_date + Days(off)
                   IN  /\ activity_date < END_DATE
                       /\ \E P \in ActivityParticipants(ids, group, n) :
                            record' = ActivityGenerate(home_index, activity_date, P)
    /\ current_date' = current_date + Days(7)
    /\ UNCHANGED <<home_vars, twin, caregivers, incidents,
                   generator_vars, initial_left,
                   bed_occupancy, clients, client_index, pc>>

\* the weekly loop ends; Phase 6 starts its loop
ActivitiesDone ==
    /\ pc = "activities"
    /\ ~(current_date < END_DATE)
    /\ \E d \in IncidentStartChoices : current_date' = home_open + Days(d)
    /\ record' = NoRecord
    /\ pc' = "incidents"
    /\ UNCHANGED <<home_vars, twin, caregivers, incidents,
                   generator_vars, initial_left,
                   bed_occupancy, clients, client_index>>

\* active_client_ids of Phase 6 taken from the residents of every home
IncidentActiveClientIdsAnyHome ==
    {clients[k].id : k \in {j \in 1..Len(clients) :
        /\ Admission(clients[j]) <= current_date
        /\ (clients[j].dischargeDate = None \/ clients[j].dischargeDate > current_date)}}

\* active_client_ids of Phase 6
IncidentActiveClientIds ==
    {clients[k].id : k \in {j \in 1..Len(clients) :
        /\ clients[j].homeId = home_index
        /\ Admission(clients[j]) <= current_date
        /\ (clients[j].dischargeDate = None \/ clients[j].dischargeDate > current_date)}}

IncidentStatuses == {"Closed", "UnderReview", "Submitted", "Draft"}

\* the names of config.INCIDENT_TYPES
INCIDENT_TYPES ==
    {"Fall", "Medication", "Behavioral", "Medical", "Injury", "Other", "Elopement"}

\* chars = "0123456789ABCDEFGHIJKLMNOPQRSTUVWXYZ"; a Python str is the sequence
\* of its characters
chars ==
    <<"0", "1", "2", "3", "4", "5", "6", "7", "8", "9", "A", "B", "C", "D",
      "E", "F", "G", "H", "I", "J", "K", "L", "M", "N", "O", "P", "Q", "R",
      "S", "T", "U", "V", "W", "X", "Y", "Z">>

\* the literal 36 of _to_base36 and _calculate_luhn_mod36_checksum
Base36 == 36

\* chars.index(c) for every character of chars
char_index ==
    [c \in {chars[i] : i \in 1..Len(chars)} |->
        (CHOOSE i \in 1..Len(chars) : chars[i] = c) - 1]

\* chars.index(c)
CharIndex(c) == char_index[c]

\* IncidentGenerator._get_incident_type_code
get_incident_type_code(incident_type) ==
    CASE incident_type = "Fall" -> "F"
      [] incident_type = "Medication" -> "M"
      [] incident_type = "Behavioral" -> "B"
      [] incident_type = "Medical" -> "X"
      [] incident_type = "Injury" -> "I"
      [] incident_type = "Elopement" -> "E"
      [] incident_type = "Other" -> "O"
      [] OTHER -> "O"

\* the `while value > 0` loop of _to_base36
RECURSIVE Base36Digits(_)
Base36Digits(value) ==
    IF value > 0
    THEN Append(Base36Digits(value \div Base36), chars[(value % Base36) + 1])
    ELSE <<>>

\* IncidentGenerator._to_base36
to_base36(value) == IF value = 0 THEN <<"0">> ELSE Base36Digits(value)

\* str.zfill(width) without padding: the text as it is
zfillNone(str, width) == str

\* str.zfill(width): zeros on the left up to the width, nothing cut off
zfill(str, width) ==
    IF Len(str) >= width THEN str
    ELSE [i \in 1..(width - Len(str)) |-> "0"] \o str

\* the addend without the carry of the product
LuhnAddendNoCarry(factor, code_point) == (factor * code_point) % Base36

\* addend = factor * code_point; addend = (addend // 36) + (addend % 36)
LuhnAddend(factor, code_point) ==
    LET addend == factor * code_point
    IN  (addend \div Base36) + (addend % Base36)

\* a factor that never alternates
NextFactorSame(factor) == factor

\* factor = 1 if factor == 2 else 2
NextFactor(factor) == IF factor = 2 THEN 1 ELSE 2

\* the loop `for i in range(len(input_str) - 1, -1, -1)`, from position i down
RECURSIVE LuhnSum(_, _, _)
LuhnSum(input_str, i, factor) ==
    IF i < 1 THEN 0
    ELSE LuhnAddend(factor, CharIndex(input_str[i]))
         + LuhnSum(input_str, i - 1, NextFactor(factor))

\* a checksum whose rightmost factor is 1
LuhnFromFactorOne(input_str) ==
    LET remainder == LuhnSum(input_str, Len(input_str), 1) % Base36
    IN  chars[((Base36 - remainder) % Base36) + 1]

\* IncidentGenerator._calculate_luhn_mod36_checksum
calculate_luhn_mod36_checksum(input_str) ==
    LET sum_val == LuhnSum(input_str, Len(input_str), 2)
        remainder == sum_val % Base36
        check_code_point == (Base36 - remainder) % Base36
    IN  chars[check_code_point + 1]

\* an incident number with the sequence before the home code
IncidentNumberSwapped(sequence_map, home_id, incident_type, incident_count) ==
    LET home_sequence == IF home_id \in DOMAIN sequence_map
                         THEN sequence_map[home_id] ELSE 1
        full_payload == <<get_incident_type_code(incident_type), "I", "R">>
                        \o zfill(to_base36(incident_count), 4)
                        \o zfill(to_base36(home_sequence), 2)
    IN  Append(full_payload, calculate_luhn_mod36_checksum(full_payload))

\* IncidentGenerator._generate_incident_number, reading the home_sequence_map
\* it is given; .upper() leaves the characters of `chars` as they are
generate_incident_number(sequence_map, home_id, incident_type, incident_count) ==
    LET type_code == get_incident_type_code(incident_type)
        home_sequence == IF home_id \in DOMAIN sequence_map
                         THEN sequence_map[home_id] ELSE 1
        home_code == zfill(to_base36(home_sequence), 2)
        sequence == zfill(to_base36(incident_count), 4)
        payload == home_code \o sequence
        full_payload == <<type_code, "I", "R">> \o payload
        checksum == calculate_luhn_mod36_checksum(full_payload)
    IN  Append(full_payload, checksum)

\* admin_user_ids: Optional[list[str]]; `given` is FALSE for None
AdminUserIds(given, ids) == [given |-> given, ids |-> ids]

\* the arguments of generate(home_id, client_id, reporter_id, occurred_at,
\* home_sequence, admin_user_ids)
GenerateArguments(home_id, client_id, reporter_id, occurred_at, home_sequence, admins) ==
    [made |-> TRUE, home_id |-> home_id, client_id |-> client_id,
     reporter_id |-> reporter_id, occurred_at |-> occurred_at,
     home_sequence |-> home_sequence, admin_user_ids |-> admins]

\* a count that starts again at every call
CountFromZero(counter, home_id) == 0

\* the number of incidents a home has had so far (0 without a counter entry)
CountOf(counter, home_id) ==
    IF home_id \in DOMAIN counter THEN counter[home_id] ELSE 0

\* a count kept for all homes together
count_incident_all(counter, home_id) ==
    [h \in DOMAIN counter \cup {home_id} |-> CountOf(counter, h) + 1]

\* if home_id not in self.incident_counter_by_home: ... = 0;  ... += 1
count_incident(counter, home_id) ==
    [h \in DOMAIN counter \cup {home_id} |->
        IF h = home_id THEN CountOf(counter, h) + 1 ELSE counter[h]]

\* track_home_sequence that takes the sequence of every call that gives one
track_last_home_sequence(sequence_map, home_id, home_sequence) ==
    IF home_sequence # None
    THEN [h \in DOMAIN sequence_map \cup {home_id} |->
            IF h = home_id THEN home_sequence ELSE sequence_map[h]]
    ELSE sequence_map

\* if home_sequence is not None and home_id not in self.home_sequence_map
track_home_sequence(sequence_map, home_id, home_sequence) ==
    IF home_sequence # None /\ home_id \notin DOMAIN sequence_map
    THEN [h \in DOMAIN sequence_map \cup {home_id} |->
            IF h = home_id THEN home_sequence ELSE sequence_map[h]]
    ELSE sequence_map

\* `if status != "Draft"`: updated 1-24 hours after creation
SubmittedUpdate(incident, occurred_at, update_offset) ==
    IF incident.status # "Draft"
    THEN [incident EXCEPT !.updatedAt = occurred_at + update_offset * 60]
    ELSE incident

\* a closer that is the reporter whatever the pool holds
ClosedByReporter(admin_user_ids, reporter_id, pick) == reporter_id

\* `if admin_user_ids: random.choice(admin_user_ids) else: reporter_id`; the
\* choice is the element at position `pick`
ClosedBy(admin_user_ids, reporter_id, pick) ==
    IF admin_user_ids.given /\ Len(admin_user_ids.ids) > 0
    THEN admin_user_ids.ids[pick]
    ELSE reporter_id

\* a closure that leaves updatedAt alone
CloseIncidentKeepUpdate(incident, close_date, closed_by_id) ==
    IF incident.status = "Closed"
    THEN incident @@ [closedAt |-> close_date,
                      closureNotes |-> "Investigation complete.",
                      closedById |-> closed_by_id]
    ELSE incident

\* `if status == "Closed"`: the closure keys are added, updatedAt overwritten
CloseIncident(incident, close_date, closed_by_id) ==
    IF incident.status = "Closed"
    THEN [incident EXCEPT !.updatedAt = close_date]
         @@ [closedAt |-> close_date,
             closureNotes |-> "Investigation complete.",
             closedById |-> closed_by_id]
    ELSE incident

\* the random draws of one generate call
GenerateDraws(incident_type, status, update_offset, close_days, pick) ==
    [incident_type |-> incident_type, status |-> status,
     update_offset |-> update_offset, close_days |-> close_days, pick |-> pick]

\* IncidentGenerator.generate: the incident returned for the arguments `args`
\* and the random draws `draws`, with the generator's maps as the call leaves
\* them
IncidentGenerate(counter, sequence_map, args, draws) ==
    LET incident == [kind |-> "incident",
                     incidentNumber |-> generate_incident_number(
                         sequence_map, args.home_id, draws.incident_type,
                         counter[args.home_id]),
                     clientId |-> args.client_id,
                     homeId |-> args.home_id,
                     incidentType |-> draws.incident_type,
                     status |-> draws.status,
                     occurredAt |-> args.occurred_at,
                     reportedById |-> args.reporter_id,
                     createdAt |-> args.occurred_at,
                     updatedAt |-> None]
        close_date == args.occurred_at + Days(draws.close_days)
    IN  CloseIncident(
            SubmittedUpdate(incident, args.occurred_at, draws.update_offset),
            close_date,
            ClosedBy(args.admin_user_ids, args.reporter_id, draws.pick))

\* random.randint(1, 24) is drawn `if status != "Draft"`; the closure
\* overwrites what it wrote, so one draw stands for all of a Closed incident
UpdateOffsetDraws(status) ==
    IF status = "Draft" THEN {None}
    ELSE IF status = "Closed" THEN {1}
    ELSE UpdateOffsetChoices

\* random.randint(1, 7) is drawn `if status == "Closed"`
CloseDayDraws(status) == IF status = "Closed" THEN CloseDayChoices ELSE {None}

\* the incident types, reporter and admin pool of the homes loop of Phase 6
EventIncidentTypes == {"Fall"}
admin_user_ids == AdminUserIds(TRUE, <<"admin">>)

\* one iteration of the incident loop of Phase 6, in a behaviour of at most
\* `most` incidents per home
IncidentStepWithin(most) ==
    /\ pc = "incidents"
    /\ current_date < END_DATE
    /\ LET ids == IncidentActiveClientIds
       IN  \/ /\ record' = NoRecord
              /\ call' = NoCall
              /\ UNCHANGED <<incident_counter_by_home, home_sequence_map,
                             incidents>>
           \/ /\ ids # {}
              /\ CountOf(incident_counter_by_home, home_index) < most
              /\ incident_counter_by_home' =
                     count_incident(incident_counter_by_home, home_index)
              /\ home_sequence_map' =
                     track_home_sequence(home_sequence_map, home_index, home_index)
              /\ \E client_id \in ids \cup {None}, reporter \in home_caregivers,
                    incident_type \in EventIncidentTypes,
                    status \in IncidentStatuses :
                 \E update_offset \in UpdateOffsetDraws(status),
                    close_days \in CloseDayDraws(status) :
                   /\ call' = GenerateArguments(home_index, client_id,
                                  reporter, current_date, home_index,
                                  admin_user_ids)
                   /\ record' = IncidentGenerate(incident_counter_by_home',
                                    home_sequence_map', call',
                                    GenerateDraws(incident_type, status,
                                        update_offset, close_days, 1))
                   /\ incidents' = Append(incidents, record'.incidentNumber)
    /\ \E step \in IncidentStepChoices : current_date' = current_date + Days(step)
    /\ UNCHANGED <<home_vars, twin, caregivers, initial_left, bed_occupancy,
                   clients, client_index, pc>>

IncidentStep == IncidentStepWithin(MaxEventIncidents)

\* the incident loop ends; Phase 7 starts
IncidentsDone ==
    /\ pc = "incidents"
    /\ ~(current_date < END_DATE)
    /\ record' = NoRecord
    /\ call' = NoCall
    /\ pc' = "appointments"
    /\ UNCHANGED <<home_vars, twin, caregivers, incidents,
                   incident_counter_by_home,
                   home_sequence_map, initial_left, bed_occupancy, clients,
                   client_index, current_date>>

\* `for home_index, home in enumerate(homes)` of Phase 6: the next home
IncidentsNextHome ==
    /\ pc = "incidents"
    /\ ~(current_date < END_DATE)
    /\ home_index < NumHomes
    /\ END_DATE' = END_DATE
    /\ home_index' = home_index + 1
    /\ home_open' \in {START_DATE + Days(k) : k \in OpenOffsetChoices(home_index + 1)}
    /\ caregivers' = HiredBefore'
    /\ \E d \in IncidentStartChoices : current_date' = home_open' + Days(d)
    /\ record' = NoRecord
    /\ call' = NoCall
    /\ UNCHANGED <<capacity, twin, incidents,
                   incident_counter_by_home, home_sequence_map, initial_left,
                   bed_occupancy, clients, client_index, pc>>

\* the incident loop of the last home ends
LastHomeIncidentsDone == home_index = NumHomes /\ IncidentsDone

\* a resident of home h, admitted the day it opened and not discharged
FirstResident(id, h) ==
    LET opened == START_DATE + Days(CHOOSE k \in OpenOffsetChoices(h) : TRUE)
    IN  ClientGenerate(id, h, 1, opened, CaregiverIds[1], FALSE, None)

\* Phase 6 from its iteration for the fifth home on, in a run where each of
\* the last two homes has a resident
InitIncidents ==
    /\ HomeAt({EarlyTod}, {NumHomes - 1})
    /\ capacity = 4
    /\ initial_left = 0
    /\ current_date \in {home_open + Days(d) : d \in IncidentStartChoices}
    /\ clients = <<FirstResident(1, NumHomes - 1), FirstResident(2, NumHomes)>>
    /\ caregivers = HiredBefore
    /\ pc = "incidents"

NextIncidents ==
    \/ IncidentStepWithin(MaxRunIncidents)
    \/ IncidentsNextHome
    \/ LastHomeIncidentsDone

SpecIncidents == InitIncidents /\ [][NextIncidents]_vars

\* datetime.now() read while the run goes on
NowChoices == {END_DATE, END_DATE + MaxRunMinutes}

\* config.APPOINTMENT_STATUSES, the values weighted_choice draws from
APPOINTMENT_STATUSES == {"Completed", "Cancelled", "NoShow", "Rescheduled"}

\* AppointmentGenerator.OUTCOME_TEMPLATES
OUTCOME_TEMPLATES ==
    [Completed |-> <<"Appointment completed as scheduled. No concerns noted.",
                     "Visit went well. Follow-up scheduled in 3 months.",
                     "Good outcome. Medication adjusted as needed.",
                     "Resident tolerated appointment well. Results pending.",
                     "Stable condition noted. Continue current care plan.",
                     "Provider satisfied with progress. No changes to treatment.">>,
     Cancelled |-> <<"Cancelled due to resident illness.",
                     "Cancelled - weather conditions.",
                     "Cancelled by provider office - rescheduled.",
                     "Family requested cancellation.",
                     "Cancelled - transportation unavailable.">>,
     NoShow |-> <<"Resident refused to go to appointment.",
                  "Missed appointment - scheduling error.",
                  "Could not attend due to acute illness.">>,
     Rescheduled |-> <<"Rescheduled to better accommodate resident's needs.",
                       "Provider requested reschedule.",
                       "Rescheduled due to conflicting appointment.">>]

\* the draws of one call of AppointmentGenerator.generate: the creation
\* offset, the status, the duration and the position of the outcome note
AppointmentDraws(created_days, status, duration, note) ==
    [created_days |-> created_days, status |-> status,
     duration |-> duration, note |-> note]

\* the draws of a call that is not past: no status is drawn
ScheduledDraws(created_days) == AppointmentDraws(created_days, "Scheduled", 30, 1)

\* the status drawn by weighted_choice, which is called for past
\* appointments only, among the statuses tried
StatusDraws(statuses, is_past) == IF is_past THEN statuses ELSE {"Scheduled"}

\* CompleteAppointment that leaves completedById out
CompleteAppointmentUnsigned(appointment, scheduled_at, draws) ==
    [completedAt |-> scheduled_at + draws.duration,
     outcomeNotes |-> OUTCOME_TEMPLATES["Completed"][draws.note]]
    @@ [appointment EXCEPT !.status = "Completed"]

\* the branch `if status == "Completed"`
CompleteAppointment(appointment, scheduled_at, draws) ==
    [completedAt |-> scheduled_at + draws.duration,
     completedById |-> appointment.createdById,
     outcomeNotes |-> OUTCOME_TEMPLATES["Completed"][draws.note]]
    @@ [appointment EXCEPT !.status = "Completed"]

\* AppointmentGenerator.generate: the time, status and caregiver fields
AppointmentGenerate(client_id, home_id, created_by_id, scheduled_at, is_past, draws) ==
    LET appointment == [kind |-> "appointment",
                        clientId |-> client_id,
                        homeId |-> home_id,
                        status |-> "Scheduled",
                        scheduledAt |-> scheduled_at,
                        durationMinutes |-> draws.duration,
                        reminderSent |-> is_past,
                        createdById |-> created_by_id,
                        createdAt |-> scheduled_at - Days(draws.created_days)]
    IN  IF ~is_past THEN appointment
        ELSE IF draws.status = "Completed"
        THEN CompleteAppointment(appointment, scheduled_at, draws)
        ELSE IF draws.status \in {"Cancelled", "NoShow", "Rescheduled"}
        THEN [outcomeNotes |-> OUTCOME_TEMPLATES[draws.status][draws.note]]
             @@ [appointment EXCEPT !.status = draws.status]
        ELSE [appointment EXCEPT !.status = draws.status]

\* `for client in clients` of Phase 7: the next client, or on to the
\* upcoming appointments
AppointmentsNextClient ==
    /\ pc = "appointments"
    /\ IF client_index = 0 THEN TRUE
       ELSE ~(current_date < Discharge(clients[client_index]))
    /\ IF client_index < Len(clients)
       THEN /\ client_index' = client_index + 1
            /\ \E d \in FirstAppointmentChoices :
                 current_date' = Admission(clients[client_index + 1]) + Days(d)
            /\ pc' = "appointments"
       ELSE /\ client_index' = 0
            /\ current_date' = current_date
            /\ pc' = "upcoming"
    /\ record' = NoRecord
    /\ UNCHANGED <<home_vars, twin, caregivers, incidents,
                   generator_vars, initial_left,
                   bed_occupancy, clients>>

\* one iteration of `while current_date < discharge` of Phase 7, with the
\* status of a past appointment drawn among `statuses`
AppointmentStepWith(statuses) ==
    /\ pc = "appointments"
    /\ client_index > 0
    /\ current_date < Discharge(clients[client_index])
    /\ \E caregiver \in home_caregivers, hm \in AppointmentTimeChoices,
          now \in NowChoices, created_days \in CreatedDayChoices,
          duration \in DurationChoices, note \in OutcomeNoteChoices :
         LET appointment_time == AtTime(current_date, hm[1], hm[2])
             is_past == appointment_time < now
         IN  \E status \in StatusDraws(statuses, is_past) :
               record' = AppointmentGenerate(clients[client_index].id,
                            clients[client_index].homeId, caregiver,
                            appointment_time, is_past,
                            AppointmentDraws(created_days, status, duration, note))
    /\ \E step \in AppointmentStepChoices : current_date' = current_date + Days(step)
    /\ UNCHANGED <<home_vars, twin, caregivers, incidents,
                   generator_vars, initial_left,
                   bed_occupancy, clients, client_index, pc>>

AppointmentStep == AppointmentStepWith(EventStatusChoices)

\* one client of the upcoming-appointments loop, with its 0 to 2 appointments
UpcomingClient ==
    /\ pc = "upcoming"
    /\ client_index < Len(clients)
    /\ client_index' = client_index + 1
    /\ \/ record' = NoRecord
       \/ /\ clients[client_index + 1].isActive
          /\ \E caregiver \in home_caregivers, days_ahead \in DaysAheadChoices,
                hm \in AppointmentTimeChoices, now \in NowChoices,
                created_days \in CreatedDayChoices, duration \in DurationChoices :
               record' = AppointmentGenerate(clients[client_index + 1].id,
                            clients[client_index + 1].homeId, caregiver,
                            AtTime(now + Days(days_ahead), hm[1], hm[2]), FALSE,
                            AppointmentDraws(created_days, "Scheduled", duration, 1))
    /\ UNCHANGED <<home_vars, twin, caregivers, incidents,
                   generator_vars, initial_left,
                   bed_occupancy, clients, current_date, pc>>

\* every client was visited: the data is complete and gets saved
UpcomingDone ==
    /\ pc = "upcoming"
    /\ client_index = Len(clients)
    /\ record' = NoRecord
    /\ pc' = "done"
    /\ UNCHANGED <<home_vars, twin, caregivers, incidents,
                   generator_vars, initial_left,
                   bed_occupancy, clients, current_date, client_index>>

\* the lifecycle of a home that admits at most MaxEventClients residents
EventsLifecycle ==
    /\ \/ InitialAdmission
       \/ GradualAdmissionOf(EventStayChoices)
       \/ HazardDischarge
       \/ LifecycleDone
    /\ Len(clients_by_home(home_index))' <= MaxEventClients

InitEvents ==
    /\ InitAt(TodChoices, {6})
    /\ capacity = 4

NextEvents ==
    \/ EventsLifecycle
    \/ CareLogsNextClient
    \/ CareLogDay
    \/ ActivityWeek
    \/ ActivitiesDone
    \/ IncidentStep
    \/ IncidentsDone
    \/ AppointmentsNextClient
    \/ AppointmentStep
    \/ UpcomingClient
    \/ UpcomingDone

SpecEvents == InitEvents /\ [][NextEvents]_vars

\* Phase 7 for the last home, which has a resident admitted at its opening
\* and one discharged after the shortest stay; every status is drawn
InitAppointments ==
    /\ HomeAt(TodChoices, {NumHomes})
    /\ capacity = 4
    /\ initial_left = 0
    /\ clients = <<FirstResident(1, NumHomes),
                   ClientGenerate(2, NumHomes, 2, home_open + Days(GradualStartDays),
                                  CaregiverIds[1], TRUE,
                                  home_open + Days(GradualStartDays + StayMin))>>
    /\ caregivers = HiredBefore
    /\ current_date = END_DATE
    /\ pc = "appointments"

NextAppointments ==
    \/ AppointmentsNextClient
    \/ AppointmentStepWith(APPOINTMENT_STATUSES)
    \/ UpcomingClient
    \/ UpcomingDone

SpecAppointments == InitAppointments /\ [][NextAppointments]_vars

\* a run started early in the day whose last home admits one resident at
\* its opening
InitRun ==
    /\ InitAt({EarlyTod}, {NumHomes})
    /\ capacity = 4
    /\ initial_left = 1

\* the lifecycle when every stay drawn is the shortest one
RunLifecycle ==
    /\ \/ InitialAdmission
       \/ GradualAdmissionOf({StayMin})
       \/ HazardDischarge
       \/ LifecycleDone
    /\ Len(clients_by_home(home_index))' <= MaxEventClients

NextRun ==
    \/ RunLifecycle
    \/ CareLogsNextClient
    \/ CareLogDay
    \/ ActivityWeek
    \/ ActivitiesDone
    \/ IncidentStep
    \/ IncidentsDone
    \/ AppointmentsNextClient
    \/ AppointmentStep
    \/ UpcomingClient
    \/ UpcomingDone

\* the run is one sequential process: it always executes its next statement
SpecRun == InitRun /\ [][NextRun]_vars /\ WF_vars(NextRun)

----------------------------------------------------------------------------
(* An IncidentGenerator object called by any caller *)

\* the home ids, home_sequence arguments, incident types, moments and admin
\* pools of the calls
GeneratorHomes == {1, 2}
HomeSequenceChoices == {None, 1}
GeneratorTypeChoices == {"Fall", "Elopement"}
AdminUserIdsChoices ==
    {AdminUserIds(FALSE, <<>>), AdminUserIds(TRUE, <<>>),
     AdminUserIds(TRUE, <<"admin", "admin2">>)}

\* the positions random.choice(admin_user_ids) can take, one position when
\* the pool is not drawn from
PickChoices(admins) ==
    IF admins.given /\ Len(admins.ids) > 0 THEN 1..Len(admins.ids) ELSE {1}

\* the values the variables of generate_synthetic_data keep while only the
\* generator object is exercised
IdleRun ==
    /\ END_DATE = Days(HorizonDays) + EarlyTod
    /\ home_index = 1
    /\ home_open = START_DATE + Days(14)
    /\ capacity = 4
    /\ initial_left = 0
    /\ bed_occupancy = [b \in 1..capacity |-> <<>>]
    /\ clients = <<>>
    /\ current_date = None
    /\ client_index = 0
    /\ record = NoRecord

\* IncidentGenerator.__init__
InitGenerator ==
    /\ IdleRun
    /\ pc = "generator"
    /\ incident_counter_by_home = <<>>
    /\ home_sequence_map = <<>>
    /\ call = NoCall
    /\ twin = NoRecord
    /\ caregivers = <<>>
    /\ incidents = <<>>

\* one call generate(home_id, client_id, reporter_id, occurred_at,
\* home_sequence, admin_user_ids) with arguments and a type from the sets given
GenerateCallWith(sequences, pools, types) ==
    /\ pc = "generator"
    /\ \E home_id \in GeneratorHomes, home_sequence \in sequences :
         /\ CountOf(incident_counter_by_home, home_id) < MaxIncidents
         /\ incident_counter_by_home' =
                count_incident(incident_counter_by_home, home_id)
         /\ home_sequence_map' =
                track_home_sequence(home_sequence_map, home_id, home_sequence)
         /\ \E admins \in pools,
               incident_type \in types,
               status \in IncidentStatuses :
              \E update_offset \in UpdateOffsetDraws(status),
                 close_days \in CloseDayDraws(status),
                 pick \in PickChoices(admins) :
                /\ call' = GenerateArguments(home_id, None, "caregiver",
                               home_open + Days(14), home_sequence, admins)
                /\ record' = IncidentGenerate(incident_counter_by_home',
                                 home_sequence_map', call',
                                 GenerateDraws(incident_type, status,
                                     update_offset, close_days, pick))
    /\ UNCHANGED <<home_vars, twin, caregivers, incidents,
                   initial_left, bed_occupancy, clients,
                   current_date, client_index, pc>>

GenerateCall ==
    GenerateCallWith(HomeSequenceChoices, AdminUserIdsChoices, GeneratorTypeChoices)

NextGenerator == GenerateCall

SpecGenerator == InitGenerator /\ [][NextGenerator]_vars

\* the same object called with home_sequence arguments that differ between
\* the calls for one home
HomeCodeSequenceChoices == {None, 1, 2}

NextHomeCode ==
    GenerateCallWith(HomeCodeSequenceChoices, {admin_user_ids}, EventIncidentTypes)

SpecHomeCode == InitGenerator /\ [][NextHomeCode]_vars

----------------------------------------------------------------------------
(* IncidentGenerator._generate_incident_number on inputs of any size *)

\* home sequences registered for home 1, and incident counts passed
RegisteredSequenceChoices == {1, 35, 36, Base36 ^ 2 - 1, Base36 ^ 2}
IncidentCountChoices ==
    {1, 3, 35, 36, 35 * Base36, Base36 ^ 2 - 1, Base36 ^ 3 - 1,
     Base36 ^ 4 - 1, Base36 ^ 4}

\* a generator whose first call for home 1 registered some home sequence,
\* or none
InitNumber ==
    /\ IdleRun
    /\ pc = "number"
    /\ call = NoCall
    /\ twin = NoRecord
    /\ caregivers = <<>>
    /\ incidents = <<>>
    /\ incident_counter_by_home = <<>>
    /\ home_sequence_map \in
           {<<>>} \cup {[h \in {1} |-> q] : q \in RegisteredSequenceChoices}

\* one call _generate_incident_number(home_id, incident_type, incident_count);
\* the record keeps the arguments and the string returned
NumberCall ==
    /\ pc = "number"
    /\ \E home_id \in GeneratorHomes, incident_type \in INCIDENT_TYPES,
          incident_count \in IncidentCountChoices :
         record' = [kind |-> "number",
                    homeId |-> home_id,
                    incidentType |-> incident_type,
                    incidentCount |-> incident_count,
                    incidentNumber |-> generate_incident_number(
                        home_sequence_map, home_id, incident_type,
                        incident_count)]
    /\ UNCHANGED <<home_vars, twin, caregivers, incidents,
                   generator_vars, initial_left,
                   bed_occupancy, clients, current_date, client_index, pc>>

NextNumber == NumberCall

SpecNumber == InitNumber /\ [][NextNumber]_vars

----------------------------------------------------------------------------
(* Two runs of generate_synthetic_data with the same seed and the same       *)
(* START_DATE/END_DATE: what random and Faker draw is the same in both, what *)
(* uuid.uuid4() and datetime.now() return is each run's own.                 *)

\* values of str(uuid.uuid4()), and minutes of the day at which config is
\* imported
UuidChoices == {"uuid-a", "uuid-b"}
LateTod == 23 * 60 + 59
TwoRunsTodChoices == {EarlyTod, LateTod}

\* HomeGenerator.generate: the id, capacity and time fields of the home
HomeGenerate(id, home_capacity, open_date) ==
    [kind |-> "home", id |-> id, capacity |-> home_capacity, isActive |-> TRUE,
     createdAt |-> open_date]

\* the AppointmentGenerator.generate record with its id
AppointmentWithId(id, client_id, home_id, scheduled_at, is_past, created_days) ==
    [id |-> id] @@ AppointmentGenerate(client_id, home_id, "caregiver",
                                       scheduled_at, is_past,
                                       ScheduledDraws(created_days))

InitTwoRuns ==
    /\ END_DATE \in {Days(HorizonDays) + m : m \in TwoRunsTodChoices}
    /\ home_index = 1
    /\ home_open = START_DATE + Days(14)
    /\ capacity = 4
    /\ initial_left = 0
    /\ bed_occupancy = [b \in 1..capacity |-> <<>>]
    /\ clients = <<>>
    /\ current_date = None
    /\ client_index = 0
    /\ record = NoRecord
    /\ twin = NoRecord
    /\ caregivers = <<>>
    /\ incidents = <<>>
    /\ pc = "homes"
    /\ incident_counter_by_home = <<>>
    /\ home_sequence_map = <<>>
    /\ call = NoCall

\* Phase 1 in both runs: the same capacity is drawn, each run has its uuid
TwoRunsHome ==
    /\ pc = "homes"
    /\ \E drawn \in Capacities, id \in UuidChoices, twin_id \in UuidChoices :
         /\ capacity' = drawn
         /\ record' = HomeGenerate(id, drawn, home_open)
         /\ twin' = HomeGenerate(twin_id, drawn, home_open)
    /\ pc' = "upcoming"
    /\ UNCHANGED <<END_DATE, home_index, home_open, generator_vars,
                   caregivers, incidents, initial_left, bed_occupancy, clients, current_date,
                   client_index>>

\* an upcoming appointment of Phase 7 in both runs, for the same resident: the
\* same days_ahead, hour, minute and creation offset are drawn, each run has
\* its uuid and its datetime.now()
TwoRunsUpcoming ==
    /\ pc = "upcoming"
    /\ \E days_ahead \in DaysAheadChoices, hm \in AppointmentTimeChoices,
          created_days \in CreatedDayChoices,
          id \in UuidChoices, twin_id \in UuidChoices,
          now \in NowChoices, twin_now \in NowChoices :
         /\ record' = AppointmentWithId(id, 1, home_index,
                          AtTime(now + Days(days_ahead), hm[1], hm[2]),
                          FALSE, created_days)
         /\ twin' = AppointmentWithId(twin_id, 1, home_index,
                        AtTime(twin_now + Days(days_ahead), hm[1], hm[2]),
                        FALSE, created_days)
    /\ UNCHANGED <<home_vars, generator_vars, caregivers, incidents,
                   initial_left, bed_occupancy, clients, current_date,
                   client_index, pc>>

NextTwoRuns == TwoRunsHome \/ TwoRunsUpcoming

SpecTwoRuns == InitTwoRuns /\ [][NextTwoRuns]_vars

----------------------------------------------------------------------------
(* Properties *)

\* the resident a record names
ClientOf(id) == CHOOSE c \in {clients[k] : k \in 1..Len(clients)} : c.id = id

\* the client phase of the home is over
ClientPhaseDone == pc \notin {"initial", "loop", "hazard"}

\* bed b has an interval that covers date D
Covered(b, D) ==
    \E i \in 1..Len(bed_occupancy[b]) :
        /\ bed_occupancy[b][i][1] <= D
        /\ D <= (IF bed_occupancy[b][i][2] = None THEN END_DATE
                 ELSE bed_occupancy[b][i][2])

\* the places of the ledger: a bed and a position in its list
Places == UNION {{<<b, i>> : i \in 1..Len(bed_occupancy[b])} : b \in Beds}

\* C1: after the client phase no two intervals of one bed overlap, taken as
\* the closed ranges [start, end] with an open end read as END_DATE.
C1_NoOverlapAfterClientPhase ==
    ClientPhaseDone =>
        \A p \in Places, q \in Places :
            (p[1] = q[1] /\ p[2] # q[2]) =>
                LET x == bed_occupancy[p[1]][p[2]]
                    y == bed_occupancy[q[1]][q[2]]
                IN  ~(x[1] <= EndOr(y[2]) /\ y[1] <= EndOr(x[2]))

\* C2: in every state of the lifecycle no bed has two intervals whose end is
\* open.
C2_NoTwoOpenIntervals ==
    \A p \in Places, q \in Places :
        (p[1] = q[1] /\ p[2] # q[2]) =>
            ~(bed_occupancy[p[1]][p[2]][2] = None /\ bed_occupancy[q[1]][q[2]][2] = None)

\* dates find_available_bed is asked about: every start and end in the
\* ledger, the minute before a start and after an end, the loop date and
\* END_DATE
ProbeDates ==
    LET starts == {bed_occupancy[p[1]][p[2]][1] : p \in Places}
        ends == {bed_occupancy[p[1]][p[2]][2] : p \in Places} \ {None}
    IN  starts \cup {t - 1 : t \in starts} \cup ends \cup {t + 1 : t \in ends}
        \cup {END_DATE} \cup ({current_date} \ {None})

\* C3: find_available_bed(D) returns a bed only if no interval of that bed
\* covers D, returns None exactly when every bed has an interval covering D,
\* and returns a bed whenever the gradual-fill step counted
\* occupied_beds < number of beds.
C3_FindAvailableBed ==
    /\ \A D \in ProbeDates :
         LET b == find_available_bed(D)
         IN  IF b = None
             THEN \A bb \in Beds : Covered(bb, D)
             ELSE b \in Beds /\ ~Covered(b, D)
    /\ (pc = "loop" /\ current_date < END_DATE /\ occupied_beds < capacity)
           => find_available_bed(current_date) # None

\* a gradual-fill step at which every bed is taken and none is returned
C3_Witness ==
    /\ pc = "loop"
    /\ current_date < END_DATE
    /\ occupied_beds = capacity
    /\ find_available_bed(current_date) = None

\* C4: after the client phase, isActive holds exactly when there is no
\* dischargeDate; it is false exactly when the resident's interval in
\* bed_occupancy is closed, and a closed interval ends on the dischargeDate.
C4_ActiveFlagAgrees ==
    ClientPhaseDone =>
        \A k \in 1..Len(clients) :
            /\ clients[k].isActive <=> clients[k].dischargeDate = None
            /\ clients[k].homeId = home_index =>
                 /\ \E p \in Places :
                      /\ p[1] = clients[k].bedId
                      /\ bed_occupancy[p[1]][p[2]][3] = clients[k].id
                 /\ \A p \in Places :
                      bed_occupancy[p[1]][p[2]][3] = clients[k].id =>
                        LET end == bed_occupancy[p[1]][p[2]][2]
                        IN  /\ ~clients[k].isActive <=> end # None
                            /\ end # None => DateOf(end) = clients[k].dischargeDate

\* the client phase ended with an active resident, one discharged as
\* scheduled at admission and one discharged by the hazard
C4_Witness ==
    /\ ClientPhaseDone
    /\ \E k \in 1..Len(clients) :
         clients[k].homeId = home_index /\ clients[k].isActive
    /\ \E k \in 1..Len(clients) : clients[k].dischargeReason = "DISCHARGE_REASONS"
    /\ \E k \in 1..Len(clients) : clients[k].dischargeReason = "hazard"

\* C5: a care log's timestamp is not before the resident's admission date
\* and not after the discharge date, or END_DATE if there is none.
C5_LogWithinStay ==
    record.kind \in LogKinds =>
        LET c == ClientOf(record.clientId)
        IN  /\ Admission(c) <= record.timestamp
            /\ record.timestamp <= Discharge(c)

C7_ParticipantsActiveOnDate ==
    record.kind = "activity" =>
        \A id \in record.participants :
            LET c == ClientOf(id)
            IN  /\ c.homeId = record.homeId
                /\ c.admissionDate <= record.date
                /\ ~(c.dischargeDate # None /\ c.dischargeDate <= record.date)

\* C8: an incident that names a resident names one of its own home, admitted
\* at or before occurredAt and, if discharged, discharged after occurredAt.
C8_IncidentClientActive ==
    (record.kind = "incident" /\ record.clientId # None) =>
        LET c == ClientOf(record.clientId)
        IN  /\ c.homeId = record.homeId
            /\ Admission(c) <= record.occurredAt
            /\ c.dischargeDate # None => c.dischargeDate > record.occurredAt

\* an incident names a resident who is discharged later on, while a
\* resident of another home is in the data
C8_Witness ==
    /\ record.kind = "incident"
    /\ record.clientId # None
    /\ ClientOf(record.clientId).dischargeDate # None
    /\ \E k \in 1..Len(clients) :
         /\ clients[k].homeId # home_index
         /\ Admission(clients[k]) <= record.occurredAt

InHorizon(t) == START_DATE <= t /\ t < END_DATE

\* C9: every timestamp written lies in [START_DATE, END_DATE).
C9_TimestampsInHorizon ==
    /\ InHorizon(home_open)
    /\ \A k \in 1..Len(clients) :
         /\ InHorizon(clients[k].admissionDate)
         /\ InHorizon(clients[k].createdAt)
         /\ clients[k].dischargeDate # None => InHorizon(clients[k].dischargeDate)
    /\ record.kind \in LogKinds => InHorizon(record.timestamp)
    /\ record.kind = "activity" => InHorizon(record.date) /\ InHorizon(record.createdAt)
    /\ record.kind = "incident" =>
         /\ InHorizon(record.occurredAt)
         /\ record.updatedAt # None => InHorizon(record.updatedAt)
         /\ "closedAt" \in DOMAIN record => InHorizon(record.closedAt)
    /\ record.kind = "appointment" =>
         InHorizon(record.scheduledAt) /\ InHorizon(record.createdAt)

\* C10: a step never removes or reorders a resident, never changes a
\* resident that has a dischargeDate nor an interval whose end is set, and
\* the hazard discharge selects only intervals that are open, of residents
\* without a dischargeDate.
C10_DischargedAtMostOnce ==
    [][ /\ Len(clients') >= Len(clients)
        /\ \A k \in 1..Len(clients) :
             /\ clients'[k].id = clients[k].id
             /\ clients[k].dischargeDate # None => clients'[k] = clients[k]
        /\ \A p \in Places :
             /\ Len(bed_occupancy'[p[1]]) >= p[2]
             /\ bed_occupancy[p[1]][p[2]][2] # None =>
                  bed_occupancy'[p[1]][p[2]] = bed_occupancy[p[1]][p[2]]
        /\ pc = "hazard" =>
             \A p \in HazardEligible :
                /\ bed_occupancy[p[1]][p[2]][2] = None
                /\ ClientOf(bed_occupancy[p[1]][p[2]][3]).dischargeDate = None
      ]_vars

\* the hazard loop runs again over a resident it discharged at an earlier
\* step and over one discharged as scheduled, both admitted more than 180
\* days before
C10_Witness ==
    /\ pc = "hazard"
    /\ \E p \in Places :
         LET x == bed_occupancy[p[1]][p[2]]
         IN  /\ x[2] # None
             /\ x[2] < current_date
             /\ ClientOf(x[3]).dischargeReason = "hazard"
             /\ DaysBetween(current_date, x[1]) > HazardMinStayDays
    /\ \E p \in Places :
         LET x == bed_occupancy[p[1]][p[2]]
         IN  /\ x[2] # None
             /\ ClientOf(x[3]).dischargeReason = "DISCHARGE_REASONS"
             /\ DaysBetween(current_date, x[1]) > HazardMinStayDays

----------------------------------------------------------------------------
(* Properties of IncidentGenerator *)

\* C11: whatever status is sampled, updatedAt is non-null iff the status is
\* not Draft; closedAt, closedById and closureNotes are present iff the status
\* is Closed; and a Closed incident has updatedAt equal to closedAt.
C11_StatusFields ==
    record.kind = "incident" =>
        /\ record.updatedAt # None <=> record.status # "Draft"
        /\ \A key \in {"closedAt", "closedById", "closureNotes"} :
               key \in DOMAIN record <=> record.status = "Closed"
        /\ record.status = "Closed" => record.updatedAt = record.closedAt

\* a Closed incident closed a week after it occurred
C11_Witness ==
    /\ pc = "generator"
    /\ record.kind = "incident"
    /\ record.status = "Closed"
    /\ record.closedAt = record.occurredAt + Days(7)
    /\ record.updatedAt = record.closedAt

\* the characters of the alphabet 0-9A-Z
Alphabet == {chars[i] : i \in 1..Len(chars)}

\* the Luhn mod-36 total of a payload as the scheme is stated: factor 2 at the
\* rightmost character, alternating 2/1 leftwards, products reduced by
\* addend \div 36 + addend % 36
RECURSIVE LuhnTotalFrom(_, _)
LuhnTotalFrom(payload, k) ==
    IF k > Len(payload) THEN 0
    ELSE LET factor == IF (Len(payload) - k) % 2 = 0 THEN 2 ELSE 1
             addend == factor * CharIndex(payload[k])
         IN  (addend \div 36) + (addend % 36) + LuhnTotalFrom(payload, k + 1)

\* the check character stated for a payload
StatedCheckCharacter(payload) ==
    chars[((36 - (LuhnTotalFrom(payload, 1) % 36)) % 36) + 1]

\* all characters of a text except the last
ButLast(str) == SubSeq(str, 1, Len(str) - 1)

\* C12: recomputing the Luhn mod-36 checksum over all characters of an
\* incident number except the last reproduces the last character.
C12_ChecksumReproduced ==
    record.kind = "number" =>
        LET number == record.incidentNumber
        IN  number[Len(number)] = StatedCheckCharacter(ButLast(number))

\* a number whose check character is neither of the ends of the alphabet
C12_Witness ==
    /\ record.kind = "number"
    /\ record.incidentNumber[Len(record.incidentNumber)] \notin {"0", "Z"}
    /\ record.incidentNumber[Len(record.incidentNumber)]
           = StatedCheckCharacter(ButLast(record.incidentNumber))

\* checksum verification: the last character is the checksum of the others
Verifies(str) == str[Len(str)] = calculate_luhn_mod36_checksum(ButLast(str))

\* C13: replacing the character at any position of a valid incident number
\* (payload or check character) by any different character of the alphabet
\* gives a string that fails checksum verification.
C13_SingleCharacterDetected ==
    record.kind = "number" =>
        LET number == record.incidentNumber
        IN  /\ Verifies(number)
            /\ \A i \in 1..Len(number), c \in Alphabet :
                   c # number[i] => ~Verifies([number EXCEPT ![i] = c])

\* a valid number with characters of both halves of the alphabet, where the
\* doubled product carries and where it does not
C13_Witness ==
    /\ record.kind = "number"
    /\ Verifies(record.incidentNumber)
    /\ \E i, j \in 1..Len(record.incidentNumber) :
         /\ CharIndex(record.incidentNumber[i]) >= 18
         /\ CharIndex(record.incidentNumber[j]) < 18
         /\ ~Verifies([record.incidentNumber EXCEPT ![i] =
                          chars[CharIndex(record.incidentNumber[i]) - 17]])

\* the text with the characters at positions i and i + 1 exchanged
SwapAdjacent(str, i) == [str EXCEPT ![i] = str[i + 1], ![i + 1] = str[i]]

\* C14: swapping two adjacent characters that differ gives a string that fails
\* verification, for every pair of characters except '0' and 'Z', which is
\* the one adjacent transposition that is not detected.
C14_TranspositionDetected ==
    record.kind = "number" =>
        LET number == record.incidentNumber
        IN  \A i \in 1..(Len(number) - 1) :
                number[i] # number[i + 1] =>
                    (Verifies(SwapAdjacent(number, i))
                        <=> {number[i], number[i + 1]} = {"0", "Z"})

\* a number with '0' next to 'Z', whose exchange still verifies, and with
\* another differing pair, whose exchange does not
C14_Witness ==
    /\ record.kind = "number"
    /\ \E i, j \in 1..(Len(record.incidentNumber) - 1) :
         /\ {record.incidentNumber[i], record.incidentNumber[i + 1]} = {"0", "Z"}
         /\ Verifies(SwapAdjacent(record.incidentNumber, i))
         /\ record.incidentNumber[j] # record.incidentNumber[j + 1]
         /\ ~Verifies(SwapAdjacent(record.incidentNumber, j))

\* C15: for a home registered with home_sequence 1, the third incident
\* generated for that home, when its type is Fall, has the number FIR010003
\* followed by the check character of that payload, which is 'X' (index 33).
C15_ThirdFallNumber ==
    (/\ record.kind = "incident"
     /\ record.incidentType = "Fall"
     /\ record.homeId \in DOMAIN home_sequence_map
     /\ home_sequence_map[record.homeId] = 1
     /\ incident_counter_by_home[record.homeId] = 3)
        => /\ record.incidentNumber
                  = <<"F", "I", "R", "0", "1", "0", "0", "0", "3", "X">>
           /\ CharIndex(record.incidentNumber[10]) = 33
           /\ record.incidentNumber[10]
                  = StatedCheckCharacter(ButLast(record.incidentNumber))

\* the third incident of a home registered with sequence 1 is a Fall, after
\* the other home has had an incident too
C15_Witness ==
    /\ record.kind = "incident"
    /\ record.incidentType = "Fall"
    /\ record.homeId \in DOMAIN home_sequence_map
    /\ home_sequence_map[record.homeId] = 1
    /\ incident_counter_by_home[record.homeId] = 3
    /\ DOMAIN incident_counter_by_home = GeneratorHomes
    /\ record.incidentNumber[9] = "3"

\* the number a base-36 text stands for
RECURSIVE FromBase36(_)
FromBase36(str) ==
    IF Len(str) = 0 THEN 0
    ELSE FromBase36(ButLast(str)) * 36 + CharIndex(str[Len(str)])

\* the Sequence component of an incident number
SequenceOf(number) == FromBase36(SubSeq(number, 6, 9))

\* C16: however the calls of generate are interleaved between homes, the
\* Sequence component of the numbers of one home is 1, 2, 3, ... in generation
\* order: each call for a home yields the number of calls made for that home
\* so far, and leaves the counts of the other homes as they were.
C16_SequencePerHome ==
    [][record'.kind = "incident" =>
          LET h == record'.homeId
          IN  /\ call'.home_id = h
              /\ SequenceOf(record'.incidentNumber)
                     = CountOf(incident_counter_by_home, h) + 1
              /\ CountOf(incident_counter_by_home', h)
                     = CountOf(incident_counter_by_home, h) + 1
              /\ \A g \in GeneratorHomes \ {h} :
                     CountOf(incident_counter_by_home', g)
                         = CountOf(incident_counter_by_home, g)]_vars

\* the second incident of home 1 is generated when home 2 has had three
C16_Witness ==
    /\ pc = "generator"
    /\ record.kind = "incident"
    /\ record.homeId = 1
    /\ SequenceOf(record.incidentNumber) = 2
    /\ CountOf(incident_counter_by_home, 1) = 2
    /\ CountOf(incident_counter_by_home, 2) = 3

\* the home sequence _generate_incident_number reads for a home
HomeSequenceRead(home_id) ==
    IF home_id \in DOMAIN home_sequence_map THEN home_sequence_map[home_id]
    ELSE 1

\* C17: when the per-home incident count exceeds 36^4 - 1 or the home sequence
\* exceeds 36^2 - 1, no identifier is returned: a returned identifier has a
\* count and a home sequence within these limits.
C17_OverflowFails ==
    record.kind = "number" =>
        /\ record.incidentCount <= 36 ^ 4 - 1
        /\ HomeSequenceRead(record.homeId) <= 36 ^ 2 - 1

\* the type codes as stated
StatedTypeCode ==
    [Fall |-> "F", Medication |-> "M", Behavioral |-> "B", Medical |-> "X",
     Injury |-> "I", Elopement |-> "E", Other |-> "O"]

\* C18: for a home sequence in 1..36^2-1 and an incident count in 1..36^4-1
\* the number has exactly 10 characters of 0-9A-Z: the type code, "IR", the
\* zero-padded base-36 home sequence in characters 4-5, the zero-padded
\* base-36 count in characters 6-9, the check character; decoding characters
\* 4-5 and 6-9 gives back the home sequence and the count.
C18_NumberFormat ==
    (/\ record.kind = "number"
     /\ HomeSequenceRead(record.homeId) \in 1..(36 ^ 2 - 1)
     /\ record.incidentCount \in 1..(36 ^ 4 - 1))
        => LET number == record.incidentNumber
           IN  /\ Len(number) = 10
               /\ \A i \in 1..Len(number) : number[i] \in Alphabet
               /\ number[1] = StatedTypeCode[record.incidentType]
               /\ SubSeq(number, 2, 3) = <<"I", "R">>
               /\ FromBase36(SubSeq(number, 4, 5)) = HomeSequenceRead(record.homeId)
               /\ FromBase36(SubSeq(number, 6, 9)) = record.incidentCount
               /\ number[10] = StatedCheckCharacter(ButLast(number))

\* a number of the largest home sequence and a count that needs padding
C18_Witness ==
    /\ record.kind = "number"
    /\ Len(record.incidentNumber) = 10
    /\ HomeSequenceRead(record.homeId) = 36 ^ 2 - 1
    /\ record.incidentCount = 3
    /\ SubSeq(record.incidentNumber, 4, 9) = <<"Z", "Z", "0", "0", "0", "3">>

\* C20: a Closed incident is produced whatever the admin pool: with
\* admin_user_ids None or empty, closedById is the incident's reportedById;
\* with a non-empty admin_user_ids, closedById is one of its members.
C20_CloserFallback ==
    (record.kind = "incident" /\ record.status = "Closed") =>
        LET admins == call.admin_user_ids
        IN  IF admins.given /\ Len(admins.ids) > 0
            THEN \E k \in 1..Len(admins.ids) : record.closedById = admins.ids[k]
            ELSE record.closedById = record.reportedById

\* a Closed incident of a call without a pool
C20_Witness ==
    /\ pc = "generator"
    /\ record.kind = "incident"
    /\ record.status = "Closed"
    /\ ~call.admin_user_ids.given
    /\ record.closedById = "caregiver"

----------------------------------------------------------------------------
(* Properties of two runs *)

\* C19: two runs with the same seed and the same START_DATE/END_DATE produce
\* identical datasets: at every point the record of one run equals the record
\* of the other, field for field, generated identifiers included.
C19_RunsIdentical == record = twin

----------------------------------------------------------------------------
(* Admission and discharge steps of the lifecycle *)

\* the interval appended last to bed b's list
LastInterval(occupancy) == occupancy[Len(occupancy)]

\* beds without an interval covering D
FreeBeds(D) == {b \in Beds : ~Covered(b, D)}

\* a lifecycle step that appended a resident
Admits == Len(clients') = Len(clients) + 1

\* C21: every admission puts the resident in a bed of its own home, the bed
\* find_available_bed returned for the admission date and one without an
\* interval covering that date; when that bed was the only free one, a second
\* attempt for the same date finds no bed, so it creates no resident
C21_AdmissionTakesFreeBed ==
    [][/\ Len(clients') \in {Len(clients), Len(clients) + 1}
       /\ Admits =>
            LET c == clients'[Len(clients')]
                D == LastInterval(bed_occupancy'[c.bedId])[1]
            IN  /\ c.homeId = home_index
                /\ c.bedId \in Beds
                /\ LastInterval(bed_occupancy'[c.bedId])[3] = c.id
                /\ DateOf(D) = c.admissionDate
                /\ Len(bed_occupancy'[c.bedId]) = Len(bed_occupancy[c.bedId]) + 1
                /\ \A b \in Beds \ {c.bedId} : bed_occupancy'[b] = bed_occupancy[b]
                /\ c.bedId = find_available_bed(D)
                /\ c.bedId \in FreeBeds(D)
                /\ FreeBeds(D) = {c.bedId} =>
                     \A b \in Beds : ~IsAvailable(bed_occupancy'[b], D)]_vars

\* the last free bed of the home was taken at this step
C21_Witness ==
    /\ pc = "hazard"
    /\ Len(clients) > 0
    /\ LET c == clients[Len(clients)]
       IN  /\ c.homeId = home_index
           /\ c.createdAt = current_date
           /\ \A b \in Beds \ {c.bedId} :
                \E i \in 1..Len(bed_occupancy[b]) :
                    /\ bed_occupancy[b][i][1] < current_date
                    /\ current_date <= EndOr(bed_occupancy[b][i][2])

\* C23: a gradual-fill step admits at most one resident, and only when
\* fewer beds than the home has carry an interval covering the current date;
\* a step at which no bed is free changes neither the residents nor any
\* bed's list
C23_StepAdmitsIntoFreeBed ==
    [][pc = "loop" =>
         /\ Len(clients') \in {Len(clients), Len(clients) + 1}
         /\ Admits => Cardinality(Beds \ FreeBeds(current_date)) < capacity
         /\ FreeBeds(current_date) = {} =>
              /\ clients' = clients
              /\ bed_occupancy' = bed_occupancy]_vars

\* a step that found every bed covered has passed without an admission
C23_Witness ==
    /\ pc = "hazard"
    /\ FreeBeds(current_date) = {}
    /\ \A b \in Beds : \A i \in 1..Len(bed_occupancy[b]) :
         bed_occupancy[b][i][1] # current_date

\* the intervals a step closed
ClosedAtStep ==
    {p \in Places : bed_occupancy'[p[1]][p[2]] # bed_occupancy[p[1]][p[2]]}

\* C24: the hazard half of a step at date D closes only intervals that are
\* open and started more than 180 days before D; it sets the end to D and,
\* in the same step, the resident's dischargeDate to the date of D and
\* isActive to false; it admits nobody, and the closed interval still covers
\* D but not the date of the next step
C24_HazardDischargeStep ==
    [][pc = "hazard" =>
         /\ Len(clients') = Len(clients)
         /\ \A b \in Beds : Len(bed_occupancy'[b]) = Len(bed_occupancy[b])
         /\ \A p \in ClosedAtStep :
              LET old == bed_occupancy[p[1]][p[2]]
                  new == bed_occupancy'[p[1]][p[2]]
              IN  /\ old[2] = None
                  /\ DaysBetween(current_date, old[1]) > HazardMinStayDays
                  /\ new = <<old[1], current_date, old[3]>>
                  /\ \E k \in 1..Len(clients) :
                       /\ clients[k].id = old[3]
                       /\ clients'[k].dischargeDate = DateOf(current_date)
                       /\ ~clients'[k].isActive
                  /\ ~IsAvailable(bed_occupancy'[p[1]], current_date)
                  /\ ~(new[1] <= current_date' /\ current_date' <= EndOr(new[2]))
         /\ \A k \in 1..Len(clients) :
              clients'[k] # clients[k] =>
                  \E p \in ClosedAtStep : bed_occupancy[p[1]][p[2]][3] = clients[k].id
         /\ current_date' > current_date]_vars

\* a bed closed by a hazard discharge was given to a resident admitted at a
\* later step
C24_Witness ==
    \E b \in Beds : \E i, j \in 1..Len(bed_occupancy[b]) :
        /\ i < j
        /\ bed_occupancy[b][i][2] # None
        /\ ClientOf(bed_occupancy[b][i][3]).dischargeReason = "hazard"
        /\ bed_occupancy[b][j][1] > bed_occupancy[b][i][2]

\* residents of the home admitted with a discharge drawn at admission
PreScheduled ==
    {c \in {clients[k] : k \in 1..Len(clients)} :
        c.homeId = home_index /\ c.dischargeReason = "DISCHARGE_REASONS"}

\* C22: a resident admitted with a pre-scheduled discharge has a
\* dischargeDate d days after the admission date for the stay d drawn
\* (60 <= d <= 700), after the admission date and before END_DATE, is
\* inactive, has its interval closed d days after the admission, on that same
\* date, and has no care log on or after the discharge date
C22_PreScheduledDischarge ==
    /\ \A c \in PreScheduled :
         LET d == DaysBetween(c.dischargeDate, c.admissionDate)
         IN  /\ d \in EventStayChoices
             /\ StayMin <= d /\ d <= StayMax
             /\ c.dischargeDate = c.admissionDate + Days(d)
             /\ c.admissionDate < c.dischargeDate
             /\ c.dischargeDate < END_DATE
             /\ ~c.isActive
             /\ \E i \in 1..Len(bed_occupancy[c.bedId]) :
                  /\ bed_occupancy[c.bedId][i][3] = c.id
                  /\ bed_occupancy[c.bedId][i][1] = c.createdAt
                  /\ bed_occupancy[c.bedId][i][2] = c.createdAt + Days(d)
                  /\ DateOf(bed_occupancy[c.bedId][i][2]) = c.dischargeDate
    /\ record.kind \in LogKinds =>
         \A c \in PreScheduled :
             c.id = record.clientId => record.timestamp < c.dischargeDate

\* a care log written on the last day of a pre-scheduled stay
C22_Witness ==
    /\ record.kind \in LogKinds
    /\ \E c \in PreScheduled :
         /\ c.id = record.clientId
         /\ DateOf(record.timestamp) = c.dischargeDate - Days(1)

----------------------------------------------------------------------------
(* Residents and beds *)

\* residents of the home whose stay [admission, discharge or END_DATE]
\* covers the date D
ResidentsOn(D) ==
    {k \in 1..Len(clients) :
        /\ clients[k].homeId = home_index
        /\ clients[k].admissionDate <= D
        /\ D <= (IF clients[k].dischargeDate = None THEN END_DATE
                 ELSE clients[k].dischargeDate)}

\* C27: on every date the residents of the home whose stay covers the date
\* are at most as many as its beds (the dates tried are the admission dates,
\* where the number of residents is greatest)
C27_ResidentsWithinCapacity ==
    \A k \in 1..Len(clients) :
        clients[k].homeId = home_index =>
            Cardinality(ResidentsOn(clients[k].admissionDate)) <= capacity

----------------------------------------------------------------------------
(* Appointments *)

\* the texts of a pool of OUTCOME_TEMPLATES
PoolOf(status) ==
    {OUTCOME_TEMPLATES[status][i] : i \in 1..Len(OUTCOME_TEMPLATES[status])}

\* C25: an appointment scheduled before the moment it is generated (is_past,
\* which the record keeps as reminderSent) has one of the four outcome
\* statuses and an outcome note of that status' pool, with completedAt and
\* completedById exactly for Completed; any other appointment is Scheduled
\* and has no outcomeNotes, completedAt or completedById
C25_AppointmentStatus ==
    record.kind = "appointment" =>
        /\ record.scheduledAt < END_DATE => record.reminderSent
        /\ record.scheduledAt >= END_DATE + MaxRunMinutes => ~record.reminderSent
        /\ IF record.reminderSent
           THEN /\ record.status \in {"Completed", "Cancelled", "NoShow", "Rescheduled"}
                /\ "outcomeNotes" \in DOMAIN record
                /\ record.outcomeNotes \in PoolOf(record.status)
                /\ ("completedAt" \in DOMAIN record) <=> (record.status = "Completed")
                /\ ("completedById" \in DOMAIN record) <=> (record.status = "Completed")
           ELSE /\ record.status = "Scheduled"
                /\ DOMAIN record \cap {"outcomeNotes", "completedAt", "completedById"} = {}

\* a past appointment the resident did not show up for
C25_Witness ==
    /\ record.kind = "appointment"
    /\ record.reminderSent
    /\ record.status = "NoShow"
    /\ record.scheduledAt < END_DATE

----------------------------------------------------------------------------
(* Home codes and incident numbers of a run *)

\* the HomeCode component of an incident number
HomeCodeOf(number) == FromBase36(SubSeq(number, 4, 5))

\* a step that is a call of IncidentGenerator.generate
GenerateStep == incident_counter_by_home' # incident_counter_by_home

----------------------------------------------------------------------------
(* Caregivers named by records *)

\* the caregiver id is one of a caregiver of the home who was created and
\* assigned to the home no later than t
NamesCaregiverAt(id, t) ==
    \E k \in 1..Len(caregivers) :
        /\ caregivers[k].id = id
        /\ caregivers[k].homeId = home_index
        /\ caregivers[k].createdAt <= t
        /\ caregivers[k].assignedAt <= t

\* C29: the caregiver a resident, appointment or incident of the home names
\* holds an assignment for the home and was hired and assigned no later than
\* the record's timestamp
C29_CaregiverHiredBefore ==
    /\ \A k \in 1..Len(clients) :
         clients[k].homeId = home_index =>
             NamesCaregiverAt(clients[k].createdById, clients[k].createdAt)
    /\ record.kind = "appointment" =>
         NamesCaregiverAt(record.createdById, record.createdAt)
    /\ record.kind = "incident" =>
         NamesCaregiverAt(record.reportedById, record.createdAt)

\* C28: the incident numbers of a run, over all its homes, are pairwise
\* distinct
C28_IncidentNumbersDistinct ==
    \A i, j \in 1..Len(incidents) :
        i # j => incidents[i] # incidents[j]

\* both homes have had as many incidents as each other
C28_Witness ==
    /\ Len(incidents) = 2 * MaxRunIncidents
    /\ CountOf(incident_counter_by_home, NumHomes - 1) = MaxRunIncidents
    /\ CountOf(incident_counter_by_home, NumHomes) = MaxRunIncidents
    /\ HomeCodeOf(incidents[1]) # HomeCodeOf(incidents[Len(incidents)])

----------------------------------------------------------------------------
(* Termination *)

\* a step that stays in the loop of one resident
SameClientLoop ==
    /\ pc \in {"logs", "appointments"}
    /\ pc' = pc
    /\ client_index > 0
    /\ client_index' = client_index

\* the date of the loop moves on by a day or more
Advances == current_date' >= current_date + Days(1)

\* C30: every iteration of the lifecycle loop, the daily log loop, the
\* weekly activity loop, the incident loop and the appointment loop runs
\* while its date is before END_DATE (for a resident's loops: before the
\* discharge date) and moves the date on by at least one day, and the run
\* reaches the save phase
C30_LoopsTerminate ==
    /\ [][/\ (pc = "loop" /\ pc' = "hazard") => current_date < END_DATE
          /\ (pc = "hazard" /\ pc' = "loop") => Advances
          /\ SameClientLoop =>
               /\ current_date < Discharge(clients[client_index])
               /\ Advances
          /\ (pc \in {"activities", "incidents"} /\ pc' = pc) =>
               /\ current_date < END_DATE
               /\ Advances]_vars
    /\ <>(pc = "done")

\* the run reached the save phase after the loops of two residents
C30_Witness ==
    /\ pc = "done"
    /\ Len(clients_by_home(home_index)) = MaxEventClients
    /\ incident_counter_by_home # <<>>

====
